---- MODULE Spec2Model ----
(***************************************************************************)
(* GeminiChat (src/main.py) and its tool module (src/gemini_tools.py):     *)
(* the input loop of run(), the receive loop over session.receive(), the   *)
(* dispatch of one inbound message, handle_server_content and              *)
(* handle_tool_call, as a state machine.                                   *)
(*                                                                         *)
(* Text is a sequence of tokens (a string is the concatenation of its      *)
(* tokens): a user line is the sequence of its characters, a model part's  *)
(* text and an error text are sequences of fragments.  "The text contains  *)
(* the name" is "the name is one of the fragments".                        *)
(***************************************************************************)
EXTENDS Naturals, Sequences, FiniteSets

VARIABLES
    pc,             \* where run() stands: connect, input, send, recv, tool, done
    query,          \* run(): the line input() returned last
    history,        \* self.history
    outbox,         \* messages handed to session.send and not yet read by the remote
    turns,          \* number of user turns transmitted on the channel
    response,       \* run(): the message the receive loop is processing
    nrecv,          \* number of messages session.receive() yielded so far
    full_response,  \* run(): the parts collected for the model turn
    printed,        \* what was printed after the "Gemini > " prompt of this exchange
    responses,      \* handle_tool_call: the function responses built so far
    invoked,        \* what each function call's invocation did (the tools' side)
    exit,           \* the except clause run() left through ("none" while running)
    requested,      \* the response modalities of the config given to GeminiChat()
    config,         \* self.config.response_modalities
    warned,         \* whether __init__ logged its warning
    session,        \* the channel: none (not connected), open, closed
    events          \* what the end of run() did, in order: close, print, transcript

vars == <<pc, query, history, outbox, turns, response, nrecv, full_response,
          printed, responses, invoked, exit, requested, config, warned,
          session, events>>

-----------------------------------------------------------------------------
(* Bounds of the model *)

\* user turns sent in one session
MaxTurns == 2
\* messages session.receive() yields in one session
MaxMsgs == 3
\* function calls in one tool-call message
MaxCalls == 2

-----------------------------------------------------------------------------
(* Strings: str.lower, str.strip *)

Whitespace == {" ", "\t"}

LowerChar(c) ==
    CASE c = "Q" -> "q"
      [] c = "U" -> "u"
      [] c = "I" -> "i"
      [] c = "T" -> "t"
      [] OTHER -> c

Lower(s) == [i \in 1..Len(s) |-> LowerChar(s[i])]

RECURSIVE LStrip(_)
LStrip(s) ==
    IF s # <<>> /\ Head(s) \in Whitespace THEN LStrip(Tail(s)) ELSE s

RECURSIVE RStrip(_)
RStrip(s) ==
    IF s # <<>> /\ s[Len(s)] \in Whitespace
    THEN RStrip(SubSeq(s, 1, Len(s) - 1))
    ELSE s

Strip(s) == RStrip(LStrip(s))

\* mutant of IsQuit: the line is compared without lower()
IsQuitCaseSensitive(q) == q = <<"q", "u", "i", "t">>

IsQuit(q) == Lower(q) = <<"q", "u", "i", "t">>

\* mutant of IsBlank: the line is compared without strip()
IsBlankUnstripped(q) == q = <<>>

IsBlank(q) == Strip(q) = <<>>

\* the value of query before the first input() returns
Unset == <<"<unset>">>

\* the lines the operator types
Queries ==
    { <<>>, <<" ", "\t">>,
      <<"q", "u", "i", "t">>, <<"Q", "u", "I", "T">>,
      <<" ", "q", "u", "i", "t">>, <<"h", "i">> }

-----------------------------------------------------------------------------
(* Content: parts and turns *)

TextPart(t) == [kind |-> "text", text |-> t]
CodePart == [kind |-> "executable_code", text |-> <<>>]

Turn(role, parts) == [role |-> role, parts |-> parts]

SystemTurn == Turn("system", <<TextPart(<<"system_instruction">>)>>)
UserTurn(q) == Turn("user", <<TextPart(q)>>)
ModelTurn(parts) == Turn("model", parts)

\* part.text when it is a str, "" otherwise
PartText(p) == IF p.kind = "text" THEN p.text ELSE <<>>

RECURSIVE Render(_)
Render(parts) ==
    IF parts = <<>> THEN <<>> ELSE PartText(Head(parts)) \o Render(Tail(parts))

\* the parts lists a model turn arrives with
PartLists ==
    { <<>>, <<TextPart(<<"Hi">>)>>, <<CodePart>>,
      <<TextPart(<<"Hi">>), TextPart(<<"!">>)>>,
      <<CodePart, TextPart(<<"Hi">>)>> }

-----------------------------------------------------------------------------
(* The tool module: what getattr(gemini_tools, name, None) finds *)

\* gemini_tools.all_tools
ToolNames == {"read_file", "write_file", "append_file", "request"}

\* the kind of object the module holds under a name ("none": no such
\* attribute, or an attribute whose value is None, such as __doc__)
ModuleAttr(name) ==
    CASE name \in ToolNames -> "coroutine_function"
      [] name \in {"asyncio", "aiofiles", "aiohttp", "types"} -> "module"
      [] name = "dumps" -> "function"
      [] name \in {"Literal", "Any"} -> "typing"
      [] name \in {"all_tools", "function_declarations"} -> "list"
      [] name \in {"read_file_tool", "write_file_tool", "append_file_tool",
                   "request_tool"} -> "FunctionDeclaration"
      [] OTHER -> "none"

Returned(v) == [kind |-> "returned", value |-> v, msg |-> <<>>]
Raised(m) == [kind |-> "raised", value |-> <<>>, msg |-> m]
NotInvoked == [kind |-> "not_invoked", value |-> <<>>, msg |-> <<>>]

\* what a tool coroutine returns when it succeeds
ToolResult(name) ==
    CASE name = "read_file" -> <<"contents">>
      [] name = "request" -> <<"content", "status">>
      [] OTHER -> <<"None">>

\* what `await func(**function_call.args)` can do, by the object found;
\* every failure here is an Exception (OSError, TypeError, ClientError)
Outcomes(name) ==
    CASE ModuleAttr(name) = "coroutine_function" ->
            { Returned(ToolResult(name)),
              Raised(<<"[Errno 2] No such file or directory: ", "'x'">>) }
      [] ModuleAttr(name) = "function" ->
            { Raised(<<"object str can't be used in 'await' expression">>),
              Raised(<<name, "() missing 1 required positional argument: 'obj'">>) }
      [] ModuleAttr(name) = "typing" ->
            { Raised(<<"Cannot instantiate typing.", name>>) }
      [] ModuleAttr(name) = "none" -> { NotInvoked }
      [] OTHER ->
            { Raised(<<"'", ModuleAttr(name), "' object is not callable">>) }

FunctionCall(name, id) == [name |-> name, id |-> id]

\* mutant of FunctionResponse: the call's id is not copied
FunctionResponseNoId(name, id, resp) == [name |-> name, id |-> 0, response |-> resp]

FunctionResponse(name, id, resp) == [name |-> name, id |-> id, response |-> resp]

\* mutant of ResponseDict: the not-found text leaves the name out
ResponseDictNoName(fc, o) ==
    IF ModuleAttr(fc.name) # "none"
    THEN IF o.kind = "returned"
         THEN [key |-> "output", val |-> o.value]
         ELSE [key |-> "error", val |-> o.msg]
    ELSE [key |-> "error", val |-> <<"Function not found.">>]

\* the response dict of one function call, lines 98-106
ResponseDict(fc, o) ==
    IF ModuleAttr(fc.name) # "none"
    THEN IF o.kind = "returned"
         THEN [key |-> "output", val |-> o.value]
         ELSE [key |-> "error", val |-> o.msg]
    ELSE [key |-> "error", val |-> <<"Function '", fc.name, "' not found.">>]

\* mutant of AppendResponse: one try around the whole loop, so a raising
\* call turns the responses built before it into errors too
AppendResponseFailAll(rs, fc, o) ==
    IF o.kind = "raised"
    THEN [i \in 1..Len(rs) + 1 |->
            IF i <= Len(rs)
            THEN FunctionResponse(rs[i].name, rs[i].id, [key |-> "error", val |-> o.msg])
            ELSE FunctionResponse(fc.name, fc.id, [key |-> "error", val |-> o.msg])]
    ELSE Append(rs, FunctionResponse(fc.name, fc.id, ResponseDict(fc, o)))

\* mutant of AppendResponse: the response is put in front of the list
AppendResponsePrepend(rs, fc, o) ==
    <<FunctionResponse(fc.name, fc.id, ResponseDict(fc, o))>> \o rs

\* responses.append(types.FunctionResponse(...)), lines 108-112
AppendResponse(rs, fc, o) ==
    Append(rs, FunctionResponse(fc.name, fc.id, ResponseDict(fc, o)))

-----------------------------------------------------------------------------
(* Inbound messages (types.LiveServerMessage) *)

\* the names the remote asks for
CallNames == {"read_file", "asyncio", "dumps", "lookup"}

\* the ids of a batch of n calls: pairwise distinct, ascending or descending
CallIds(n) == { [i \in 1..n |-> i], [i \in 1..n |-> n + 1 - i] }

\* function-call lists with pairwise distinct ids
Batches ==
    UNION { { [i \in 1..n |-> FunctionCall(ns[i], ids[i])] :
                ns \in [1..n -> CallNames], ids \in CallIds(n) } :
            n \in 0..MaxCalls }

\* sc: server_content is set; mt: its model_turn ("absent": None, "noparts":
\* a Content whose parts is None, "parts": a Content with the list parts);
\* gm: its grounding_metadata ("noentry": set, search_entry_point None);
\* complete: its turn_complete; tcs: tool_call ("absent": None, "nocalls":
\* function_calls None, "calls": the list calls)
Msg(sc, mt, parts, gm, complete, tcs, calls) ==
    [sc |-> sc, mt |-> mt, parts |-> parts, gm |-> gm, complete |-> complete,
     tcs |-> tcs, calls |-> calls]

NoMessage == Msg(FALSE, "absent", <<>>, "none", FALSE, "absent", <<>>)

ContentMessages ==
    { Msg(TRUE, "parts", ps, "none", FALSE, "absent", <<>>) : ps \in PartLists }
    \cup { Msg(TRUE, "parts", <<CodePart>>, gm, FALSE, "absent", <<>>) :
        gm \in {"ok", "noentry"} }
    \cup { Msg(TRUE, mt, <<>>, gm, FALSE, "absent", <<>>) :
        mt \in {"absent", "noparts"}, gm \in {"none", "ok", "noentry"} }

TurnCompleteMessages ==
    { Msg(TRUE, "absent", <<>>, "none", TRUE, "absent", <<>>),
      Msg(TRUE, "parts", <<TextPart(<<"Hi">>)>>, "none", TRUE, "absent", <<>>) }

ToolCallMessages ==
    { Msg(FALSE, "absent", <<>>, "none", FALSE, "calls", b) : b \in Batches }
    \cup { Msg(FALSE, "absent", <<>>, "none", FALSE, "nocalls", <<>>) }

\* messages of more than one shape
MixedMessages ==
    { Msg(TRUE, mt, ps, "none", FALSE, "calls", <<FunctionCall("read_file", 1)>>) :
        mt \in {"parts"}, ps \in {<<TextPart(<<"Hi">>)>>, <<CodePart>>} }
    \cup { Msg(TRUE, "absent", <<>>, "none", FALSE, "calls",
                <<FunctionCall("lookup", 1)>>) }

Messages ==
    {NoMessage} \cup ContentMessages \cup TurnCompleteMessages
    \cup ToolCallMessages \cup MixedMessages

\* LiveServerMessage.text: the texts of the model turn's parts joined
\* (<<>> stands for None and for "", both falsy at line 156)
MessageText(m) ==
    IF m.sc /\ m.mt = "parts" THEN Render(m.parts) ELSE <<>>

-----------------------------------------------------------------------------
(* Outbound messages (session.send) *)

\* mutant of UserMessage: the stripped line is sent
UserMessageStripped(q) == [type |-> "user", text |-> Strip(q), end_of_turn |-> TRUE]

\* session.send(input=query, end_of_turn=True), line 142
UserMessage(q) == [type |-> "user", text |-> q, end_of_turn |-> TRUE]

\* types.LiveClientToolResponse(function_responses=responses), lines 114-122
ToolResponse(rs) == [type |-> "tool_response", function_responses |-> rs]

-----------------------------------------------------------------------------
(* The body of the receive loop, lines 147-166 *)

\* lines 150-154: the first part of the model turn is kept; a message
\* without server content, with parts None or with no part raises inside
\* the try and is printed as a strange response
CollectPart(fr, m) ==
    IF m.sc /\ m.mt = "parts" /\ m.parts # <<>>
    THEN Append(fr, m.parts[1])
    ELSE fr

\* lines 156-166: the branch the message takes
Dispatch(m) ==
    IF MessageText(m) # <<>> THEN "text"
    ELSE IF m.sc THEN "server_content"
    ELSE IF m.tcs # "absent" THEN "tool_call"
    ELSE "none"

\* handle_server_content, lines 66-83: iterating parts None (line 68) and
\* reading search_entry_point.rendered_content of None (line 83) raise
ServerContentRaises(m) == m.mt = "noparts" \/ m.gm = "noentry"

\* handle_tool_call, line 95: iterating function_calls None raises
ToolCallRaises(m) == m.tcs = "nocalls"

\* whether processing the message raises out of the receive loop
BodyRaises(m) ==
    \/ Dispatch(m) = "server_content" /\ ServerContentRaises(m)
    \/ Dispatch(m) = "tool_call" /\ ToolCallRaises(m)

\* mutant of Resume: the model turn is appended after every message
ResumeAppendEach(m, h, fr) ==
    /\ history' = Append(h, ModelTurn(fr))
    /\ pc' = IF m.sc /\ m.complete THEN "input" ELSE "recv"

\* mutant of Resume: the receive loop is left after every message
ResumeToInput(m, h, fr) ==
    IF m.sc /\ m.complete
    THEN /\ history' = Append(h, ModelTurn(fr))
         /\ pc' = "input"
    ELSE /\ history' = h
         /\ pc' = "input"

\* mutant of Resume: the model turn is stored over the last turn
ResumeOverwrite(m, h, fr) ==
    IF m.sc /\ m.complete
    THEN /\ history' = [h EXCEPT ![Len(h)] = ModelTurn(fr)]
         /\ pc' = "input"
    ELSE /\ history' = h
         /\ pc' = "recv"

\* the loop after the body of message m returned: session.receive() ends with
\* the message that carries turn_complete, and line 169 appends the model turn
Resume(m, h, fr) ==
    IF m.sc /\ m.complete
    THEN /\ history' = Append(h, ModelTurn(fr))
         /\ pc' = "input"
    ELSE /\ history' = h
         /\ pc' = "recv"

\* mutant of BatchDone: the reply is sent once one call has been answered
BatchStarted == Len(responses) >= 1 \/ Len(response.calls) = 0

\* handle_tool_call, line 95/114: the loop over the function calls is over
BatchDone == Len(responses) = Len(response.calls)

-----------------------------------------------------------------------------
(* GeminiChat.__init__, lines 38-50 *)

\* what a caller passes: no config at all, or a config whose
\* response_modalities is unset (None), [TEXT] or another list ([AUDIO])
Requests == {"noconfig", "unset", "text", "other"}

\* the config main.py builds (line 206) and passes (line 209)
MainRequest == "text"

\* lines 38-50: the modalities of self.config after construction; the test
\* for None at line 43 comes after line 42 has set the list
Construct(req) ==
    IF req = "noconfig"
    THEN [modalities |-> "text", warned |-> FALSE]
    ELSE IF req # "text"
    THEN [modalities |-> "text", warned |-> TRUE]
    ELSE [modalities |-> req, warned |-> FALSE]

-----------------------------------------------------------------------------
(* The end of run(), lines 171-190 *)

\* the line each except clause prints
ExitMessage(how) ==
    CASE how = "CancelledError" -> "System > The chat has been cancelled. Goodbye!"
      [] how = "KeyboardInterrupt" -> "System > Exiting the chat. Goodbye!"
      [] how = "ConnectionClosedError" -> "System > The session timed out."
      [] how = "APIError" ->
            "System > The API ran into a problem. Please try again later."
      [] OTHER -> "System > An error occured. Please try again later."

Event(ev, text, h) == [ev |-> ev, text |-> text, turns |-> h]

\* the exception leaves the async with block (the session is closed when it
\* was open), the except clause prints its line, line 190 prints the history
Farewell(how, sess, h) ==
    (IF sess = "open" THEN <<Event("close", "", <<>>)>> ELSE <<>>)
    \o << Event("print", ExitMessage(how), <<>>),
          Event("transcript", "System > ", h) >>

\* mutant of Leave: the except clause sits inside the input loop, which goes on
LeaveAndGoOn(how) ==
    /\ pc' = "input"
    /\ exit' = how
    /\ history' = history
    /\ session' = session
    /\ events' = Farewell(how, session, history)

\* mutant of Leave: the parts received so far are stored as a model turn
LeaveAppending(how) ==
    /\ pc' = "done"
    /\ exit' = how
    /\ history' = IF full_response # <<>>
                  THEN Append(history, ModelTurn(full_response))
                  ELSE history
    /\ session' = IF session = "open" THEN "closed" ELSE session
    /\ events' = Farewell(how, session, history')

\* an exception reaches the except clauses of run(), lines 171-190
Leave(how) ==
    /\ pc' = "done"
    /\ exit' = how
    /\ history' = history
    /\ session' = IF session = "open" THEN "closed" ELSE session
    /\ events' = Farewell(how, session, history)

-----------------------------------------------------------------------------
(* The state machine *)

\* the state after GeminiChat(config) with the response modalities req
Constructed(req) ==
    /\ pc = "connect"
    /\ query = Unset
    /\ history = <<SystemTurn>>
    /\ outbox = <<>>
    /\ turns = 0
    /\ response = NoMessage
    /\ nrecv = 0
    /\ full_response = <<>>
    /\ printed = <<>>
    /\ responses = <<>>
    /\ invoked = <<>>
    /\ exit = "none"
    /\ requested = req
    /\ config = Construct(req).modalities
    /\ warned = Construct(req).warned
    /\ session = "none"
    /\ events = <<>>

\* main.py, lines 203-209
Init == Constructed(MainRequest)

\* line 126: the channel opens
Connect ==
    /\ pc = "connect"
    /\ session' = "open"
    /\ pc' = "input"
    /\ UNCHANGED <<query, history, outbox, turns, response, nrecv, full_response,
                   printed, responses, invoked, exit, requested, config, warned,
                   events>>

\* line 126: the handshake fails
ConnectFails ==
    /\ pc = "connect"
    /\ \E how \in {"ConnectionClosedError", "APIError", "Exception"} : Leave(how)
    /\ UNCHANGED <<query, outbox, turns, response, nrecv, full_response,
                   printed, responses, invoked, requested, config, warned>>

\* lines 133-140: one line of input
ReadInput(q) ==
    /\ pc = "input"
    /\ (IsQuit(q) \/ IsBlank(q) \/ turns < MaxTurns)
    /\ query' = q
    /\ IF IsQuit(q)
       THEN Leave("KeyboardInterrupt")
       ELSE IF IsBlank(q)
       THEN UNCHANGED <<pc, exit, history, session, events>>
       ELSE /\ history' = Append(history, UserTurn(q))
            /\ pc' = "send"
            /\ UNCHANGED <<exit, session, events>>
    /\ UNCHANGED <<outbox, turns, response, nrecv, full_response, printed,
                   responses, invoked, requested, config, warned>>

\* lines 142-145: the user turn is transmitted
SendUserTurn ==
    /\ pc = "send"
    /\ outbox' = Append(outbox, UserMessage(query))
    /\ turns' = turns + 1
    /\ full_response' = <<>>
    /\ printed' = <<>>
    /\ pc' = "recv"
    /\ UNCHANGED <<query, history, response, nrecv, responses, invoked, exit,
                   requested, config, warned, session, events>>

\* lines 147-166: session.receive() yields message m and the body runs
Receive(m) ==
    /\ pc = "recv"
    /\ nrecv < MaxMsgs
    /\ (m.sc /\ m.complete) \/ nrecv + 1 < MaxMsgs
    /\ response' = m
    /\ nrecv' = nrecv + 1
    /\ outbox' = <<>>
    /\ full_response' = CollectPart(full_response, m)
    /\ printed' = printed \o MessageText(m)
    /\ IF BodyRaises(m)
       THEN /\ Leave("Exception")
            /\ UNCHANGED <<responses, invoked>>
       ELSE IF Dispatch(m) = "tool_call"
       THEN /\ pc' = "tool"
            /\ responses' = <<>>
            /\ invoked' = <<>>
            /\ UNCHANGED <<history, exit, session, events>>
       ELSE /\ Resume(m, history, CollectPart(full_response, m))
            /\ UNCHANGED <<responses, invoked, exit, session, events>>
    /\ UNCHANGED <<query, turns, requested, config, warned>>

\* lines 95-112: the next function call of the batch is looked up and invoked
InvokeCall ==
    /\ pc = "tool"
    /\ ~BatchDone
    /\ LET fc == response.calls[Len(responses) + 1]
       IN \E o \in Outcomes(fc.name) :
            /\ invoked' = Append(invoked, o)
            /\ responses' = AppendResponse(responses, fc, o)
    /\ UNCHANGED <<pc, query, history, outbox, turns, response, nrecv,
                   full_response, printed, exit, requested, config, warned,
                   session, events>>

\* lines 114-122: the tool response is sent and the handler returns
SendToolResponse ==
    /\ pc = "tool"
    /\ BatchDone
    /\ outbox' = Append(outbox, ToolResponse(responses))
    /\ responses' = <<>>
    /\ invoked' = <<>>
    /\ Resume(response, history, full_response)
    /\ UNCHANGED <<query, turns, response, nrecv, full_response, printed, exit,
                   requested, config, warned, session, events>>

\* the awaits of run(): the sends (lines 122, 142), the receive (line 147)
\* and the call of a tool coroutine (line 101)
AtAwait ==
    \/ pc \in {"send", "recv"}
    \/ pc = "tool" /\ BatchDone
    \/ /\ pc = "tool" /\ ~BatchDone
       /\ ModuleAttr(response.calls[Len(responses) + 1].name) = "coroutine_function"

\* lines 177-183: the channel fails under a send or a receive
ChannelError ==
    /\ \/ pc \in {"send", "recv"}
       \/ pc = "tool" /\ BatchDone
    /\ \E how \in {"ConnectionClosedError", "APIError"} : Leave(how)
    /\ UNCHANGED <<query, outbox, turns, response, nrecv, full_response,
                   printed, responses, invoked, requested, config, warned>>

\* lines 171-172: the task is cancelled while run() waits; CancelledError is
\* no Exception, so line 103 does not catch it
Cancel ==
    /\ pc = "connect" \/ AtAwait
    /\ Leave("CancelledError")
    /\ UNCHANGED <<query, outbox, turns, response, nrecv, full_response,
                   printed, responses, invoked, requested, config, warned>>

Next ==
    \/ Connect
    \/ ConnectFails
    \/ \E q \in Queries : ReadInput(q)
    \/ SendUserTurn
    \/ \E m \in Messages : Receive(m)
    \/ InvokeCall
    \/ SendToolResponse
    \/ ChannelError
    \/ Cancel

Spec == Init /\ [][Next]_vars

\* GeminiChat constructed with any config
SpecConfig == (\E req \in Requests : Constructed(req)) /\ [][Next]_vars

-----------------------------------------------------------------------------
(* Vocabulary of the properties *)

Last(s) == s[Len(s)]

Contains(text, fragment) == \E i \in DOMAIN text : text[i] = fragment

WhitespaceOnly(q) == \A i \in DOMAIN q : q[i] \in Whitespace

Count(s, role) == Cardinality({ i \in DOMAIN s : s[i].role = role })

\* this step is one message of session.receive() being processed
ReceiveStep == pc = "recv" /\ nrecv' = nrecv + 1

\* this step is handle_tool_call sending its tool response
ReplyStep == pc = "tool" /\ outbox' # outbox

\* this step is one function call of the batch being processed
InvokeStep == pc = "tool" /\ Len(invoked') = Len(invoked) + 1

\* the ids of the function responses rs are those of the calls cs, each once
IdBijection(cs, rs) ==
    /\ Len(rs) = Len(cs)
    /\ \E f \in [DOMAIN rs -> DOMAIN cs] :
         /\ \A i, j \in DOMAIN rs : f[i] = f[j] => i = j
         /\ \A i \in DOMAIN rs : rs[i].id = cs[f[i]].id

\* all parts of the message's model turn
MessageParts(m) == IF m.sc /\ m.mt = "parts" THEN m.parts ELSE <<>>

-----------------------------------------------------------------------------
(* C1..C10 *)

\* C1: the tool response handle_tool_call sends for a batch of N >= 1 calls
\* with distinct ids holds exactly N function responses whose ids are the
\* ids of the request, each used once, and it is the only message sent.
C1_ResponseIdsMatchRequest ==
    [][ReplyStep /\ Len(response.calls) >= 1
          => /\ outbox' = Append(outbox, Last(outbox'))
             /\ Last(outbox').type = "tool_response"
             /\ Len(Last(outbox').function_responses) = Len(response.calls)
             /\ IdBijection(response.calls, Last(outbox').function_responses)]_vars

\* C1 witness: a reply to two calls, one answered with an output and one
\* with an error, is on the channel.
C1_Witness ==
    /\ pc = "recv"
    /\ outbox # <<>>
    /\ Last(outbox).type = "tool_response"
    /\ Len(Last(outbox).function_responses) = 2
    /\ Last(outbox).function_responses[1].response.key = "error"
    /\ Last(outbox).function_responses[2].response.key = "output"
    /\ Last(outbox).function_responses[1].id = 2

\* C2: a function call whose name is not a registered tool gets an error
\* outcome whose text contains that name.
C2_UnregisteredNameInError ==
    \A i \in DOMAIN responses :
        responses[i].name \notin ToolNames
            => /\ responses[i].response.key = "error"
               /\ Contains(responses[i].response.val, responses[i].name)

C4_SiblingsIndependent ==
    /\ Len(invoked) = Len(responses)
    /\ \A i \in DOMAIN responses :
         /\ responses[i].name = response.calls[i].name
         /\ responses[i].id = response.calls[i].id
         /\ invoked[i].kind = "returned"
              => responses[i].response = [key |-> "output", val |-> invoked[i].value]
         /\ invoked[i].kind = "raised"
              => responses[i].response = [key |-> "error", val |-> invoked[i].msg]
         /\ responses[i].response.key = "error"
              => invoked[i].kind \in {"raised", "not_invoked"}
    /\ exit = "Exception" => BodyRaises(response) \/ session = "none"

\* C4 witness: the first call of a batch raised, the second returned and
\* holds its result.
C4_Witness ==
    /\ pc = "tool"
    /\ Len(responses) = 2
    /\ invoked[1].kind = "raised"
    /\ invoked[2].kind = "returned"
    /\ responses[2].response = [key |-> "output", val |-> <<"contents">>]

\* C5: a line that is neither blank nor the quit command makes exactly one
\* user turn holding it, appended to the history before anything is sent;
\* a user turn is transmitted only with the end-of-turn marker and only
\* when its text is the last user turn of the history.
C5_UserTurnAppendedBeforeSend ==
    [][/\ pc = "input" /\ ~WhitespaceOnly(query') /\ ~IsQuit(query')
            => /\ history' = Append(history, UserTurn(query'))
               /\ outbox' = outbox
               /\ turns' = turns
               /\ pc' = "send"
       /\ turns' # turns
            => /\ pc = "send"
               /\ history' = history
               /\ Last(history) = UserTurn(query)
               /\ outbox' = Append(outbox,
                      [type |-> "user", text |-> query, end_of_turn |-> TRUE])
               /\ Count(history, "user") = turns']_vars

\* C5 witness: the second user turn, " quit", is in the history and on the
\* channel.
C5_Witness ==
    /\ pc = "recv"
    /\ turns = 2
    /\ query = <<" ", "q", "u", "i", "t">>
    /\ Last(history) = UserTurn(query)
    /\ outbox # <<>>
    /\ Last(outbox) = [type |-> "user", text |-> query, end_of_turn |-> TRUE]

\* C6: an empty or whitespace-only line changes nothing but the line read:
\* history, channel, receive loop and session state stay as they were and
\* the engine waits for the next line.
C6_BlankInputNoOp ==
    [][pc = "input" /\ WhitespaceOnly(query')
          => /\ UNCHANGED <<history, outbox, turns, response, nrecv, full_response,
                            printed, responses, invoked, exit, requested, config,
                            warned, session, events>>
             /\ pc' = "input"]_vars

\* C6 witness: after an exchange, a whitespace-only line was read and the
\* engine is waiting for input.
C6_Witness ==
    /\ pc = "input"
    /\ query = <<" ", "\t">>
    /\ turns = 1
    /\ Len(history) = 3
    /\ exit = "none"

\* C7: the history is the system turn followed by user and model turns in
\* strict alternation, and whenever the engine waits for input after k
\* transmitted user turns it holds exactly k user and k model turns.
C7_StrictAlternation ==
    /\ history[1] = SystemTurn
    /\ \A i \in 2..Len(history) :
         history[i].role = (IF i % 2 = 0 THEN "user" ELSE "model")
    /\ pc = "input"
         => /\ Count(history, "user") = turns
            /\ Count(history, "model") = turns
            /\ Len(history) = 2 * turns + 1

\* C7 witness: two exchanges have drained.
C7_Witness ==
    /\ pc = "input"
    /\ turns = 2
    /\ Len(history) = 5
    /\ history[3].role = "model"
    /\ history[5].role = "model"

\* C8: every part of every model-content message of the exchange is
\* collected, in arrival order; the model turn appended at the drain holds
\* them, and its rendered text is the text printed for the exchange.
C8_ModelTurnHoldsAllParts ==
    [][/\ ReceiveStep
            => full_response' = full_response \o MessageParts(response')
       /\ Len(history') > Len(history) /\ Last(history').role = "model"
            => /\ Last(history').parts = full_response'
               /\ Render(Last(history').parts) = printed']_vars

\* C9: a message that carries function calls is dispatched to
\* handle_tool_call, whatever else it carries.
C9_ToolCallTakesPriority ==
    [][ReceiveStep /\ response'.tcs = "calls" => pc' = "tool"]_vars

\* C10: processing an inbound message, whatever its shape, raises nothing
\* out of the receive loop, and the session keeps receiving.
C10_ClassificationTotal ==
    [][ReceiveStep => exit' = "none" /\ pc' \in {"recv", "tool", "input"}]_vars

-----------------------------------------------------------------------------
(* C11..C19 *)

QuitLines == { <<"q", "u", "i", "t">>, <<"Q", "u", "I", "T">> }

ToolResponsesIn(box) == { i \in DOMAIN box : box[i].type = "tool_response" }

\* C11: a channel error under a send or a receive ends the session: run()
\* leaves both loops, the channel is closed, the fixed line of the except
\* clause is printed, and once the session has failed nothing is sent.
C11_ChannelErrorIsTerminal ==
    [][/\ exit = "none" /\ exit' \in {"ConnectionClosedError", "APIError"}
          /\ pc \in {"send", "recv", "tool"}
            => /\ pc' = "done"
               /\ session' = "closed"
               /\ outbox' = outbox
               /\ turns' = turns
               /\ events'[2].ev = "print"
               /\ events'[2].text =
                    IF exit' = "ConnectionClosedError"
                    THEN "System > The session timed out."
                    ELSE "System > The API ran into a problem. Please try again later."
       /\ exit # "none"
            => /\ outbox' = outbox
               /\ turns' = turns
               /\ pc' = "done"]_vars

\* C11 witness: the connection closed while the exchange was being drained.
C11_Witness ==
    /\ pc = "done"
    /\ exit = "ConnectionClosedError"
    /\ nrecv >= 1
    /\ full_response # <<>>
    /\ session = "closed"
    /\ Len(history) = 2

\* C12: however run() ends, it ends in an except clause: the channel, when
\* it was opened, is closed first, then exactly one line is printed, then
\* the history; a quit line in any letter case ends the session at once and
\* is neither appended to the history nor sent.
C12_EveryExitReportsAndPrintsTranscript ==
    /\ exit # "none" => pc = "done"
    /\ pc = "done"
         => /\ exit \in {"KeyboardInterrupt", "CancelledError", "ConnectionClosedError",
                         "APIError", "Exception"}
            /\ session \in {"none", "closed"}
            /\ Len(events) = (IF session = "closed" THEN 3 ELSE 2)
            /\ session = "closed" => events[1].ev = "close"
            /\ Cardinality({ i \in DOMAIN events : events[i].ev = "print" }) = 1
            /\ events[Len(events) - 1].ev = "print"
            /\ Last(events).ev = "transcript"
            /\ Last(events).turns = history
    /\ query \in QuitLines => pc = "done" /\ exit = "KeyboardInterrupt"
    /\ \A i \in DOMAIN history :
         history[i].role = "user" => history[i].parts[1].text \notin QuitLines
    /\ \A i \in DOMAIN outbox :
         outbox[i].type = "user" => outbox[i].text \notin QuitLines

\* C12 witness: after one exchange the operator typed QuIT.
C12_Witness ==
    /\ pc = "done"
    /\ exit = "KeyboardInterrupt"
    /\ query = <<"Q", "u", "I", "T">>
    /\ turns = 1
    /\ Len(history) = 3
    /\ Len(events) = 3

\* C13: after construction the response modality is text-only, and the
\* warning was logged exactly when a modality other than text-only had been
\* requested (not when text-only, nothing or no config was given).
C13_ModalityCoercedWithWarning ==
    /\ config = "text"
    /\ warned <=> requested = "other"

\* C14: between a tool-call message and its tool response no line is read
\* and no user turn is sent, and a user turn is sent only when every
\* earlier exchange has drained into its model turn.
C14_StrictlySequential ==
    [][/\ pc \in {"recv", "tool"}
            => /\ query' = query
               /\ turns' = turns
               /\ \A i \in DOMAIN outbox' : outbox'[i].type = "user" => outbox' = outbox
       /\ turns' # turns
            => /\ pc = "send"
               /\ Count(history, "model") = turns
               /\ Count(history, "user") = turns + 1]_vars

\* C14 witness: in the second exchange a batch of two calls is half done.
C14_Witness ==
    /\ pc = "tool"
    /\ turns = 2
    /\ Len(response.calls) = 2
    /\ Len(responses) = 1

\* C15: when the task is cancelled during a tool-call batch, the result of
\* every invocation that had returned has been sent to the remote.
C15_CompletedResultsReported ==
    pc = "done" /\ exit = "CancelledError"
        => \A i \in DOMAIN invoked :
             invoked[i].kind = "returned"
                 => \E j \in ToolResponsesIn(outbox) :
                      \E k \in DOMAIN outbox[j].function_responses :
                        outbox[j].function_responses[k] = responses[i]

\* C16: handle_tool_call sends one tool response per tool-call message, and
\* only when every function call of the batch has its response; it sends
\* nothing while calls are pending and returns to the receive loop.
C16_OneReplyAfterAllCalls ==
    [][/\ ReplyStep
            => /\ Len(responses) = Len(response.calls)
               /\ outbox' = Append(outbox,
                      [type |-> "tool_response", function_responses |-> responses])
               /\ Cardinality(ToolResponsesIn(outbox')) = 1
               /\ pc' \in {"recv", "input"}
               /\ response' = response
       /\ InvokeStep => outbox' = outbox /\ pc' = "tool" /\ response' = response
       /\ Cardinality(ToolResponsesIn(outbox')) > Cardinality(ToolResponsesIn(outbox))
            => pc = "tool"]_vars

\* C16 witness: the one reply to a batch of two calls is on the channel.
C16_Witness ==
    /\ pc = "recv"
    /\ Len(response.calls) = 2
    /\ Cardinality(ToolResponsesIn(outbox)) = 1
    /\ Len(outbox[1].function_responses) = 2
    /\ responses = <<>>

\* C17: every step leaves the earlier history as a prefix of the later one;
\* its first entry is the system turn and there is no other system turn.
C17_HistoryAppendOnly ==
    [][/\ Len(history') >= Len(history)
       /\ SubSeq(history', 1, Len(history)) = history
       /\ history'[1] = SystemTurn
       /\ Count(history', "system") = 1]_vars

\* C17 witness: the history has grown to two exchanges.
C17_Witness ==
    /\ Len(history) = 5
    /\ history[1] = SystemTurn
    /\ pc = "done"

\* C18: when run() ends in a failure or a cancellation after a user turn was
\* appended and before its exchange has drained, no model turn is appended:
\* the transcript printed is the history, it ends with that user turn, and
\* the parts received in the exchange are not in it.
C18_NoModelTurnForBrokenExchange ==
    pc = "done" /\ exit # "KeyboardInterrupt" /\ session = "closed"
        => /\ Last(history) = UserTurn(query)
           /\ Count(history, "model") = Count(history, "user") - 1
           /\ Last(events) = Event("transcript", "System > ", history)

\* C18 witness: the task was cancelled after a part had been received and
\* its text printed.
C18_Witness ==
    /\ pc = "done"
    /\ exit = "CancelledError"
    /\ full_response # <<>>
    /\ printed # <<>>
    /\ Last(history).role = "user"
    /\ turns = 2

\* C19: the function responses of the tool response sent stand in the order
\* of the function calls: response i carries the name and the id of call i.
C19_ResponsesInCallOrder ==
    [][ReplyStep
          => /\ Len(Last(outbox').function_responses) = Len(response.calls)
             /\ \A i \in DOMAIN response.calls :
                  /\ Last(outbox').function_responses[i].name = response.calls[i].name
                  /\ Last(outbox').function_responses[i].id = response.calls[i].id]_vars

\* C19 witness: the reply to the calls lookup/2, read_file/1 is on the channel.
C19_Witness ==
    /\ pc = "recv"
    /\ outbox # <<>>
    /\ Last(outbox).type = "tool_response"
    /\ response.calls = <<FunctionCall("lookup", 2), FunctionCall("read_file", 1)>>
    /\ Last(outbox).function_responses[1].name = "lookup"
    /\ Last(outbox).function_responses[2].name = "read_file"

====
